---- MODULE Spec2Model ----
(***************************************************************************)
(* The production readiness checker (src/unnamed/part_000, a bash script   *)
(* run under `set -e`) as a state machine.                                 *)
(*                                                                         *)
(* The environment the script inspects is a set of facts (env) fixed when  *)
(* the run starts.  Script(env) is the sequence of simple commands the     *)
(* script's control flow selects in that environment: conditions of `if`   *)
(* statements ("test"), calls of check_pass / check_fail / check_warn,     *)
(* other simple commands ("cmd"), echo lines, and the summary.  The three  *)
(* actions execute the command at pc with bash's errexit rule: a simple    *)
(* command that is not part of a condition and returns a non-zero status   *)
(* ends the shell with that status.                                        *)
(***************************************************************************)
EXTENDS Integers, Sequences, FiniteSets, TLC

VARIABLES env, pc, PASSED, FAILED, WARNINGS, out, exitCode, attempted, image,
          run, first, asset, fileName

vars == <<env, pc, PASSED, FAILED, WARNINGS, out, exitCode, attempted, image,
          run, first, asset, fileName>>

(***************************************************************************)
(* Environment                                                             *)
(***************************************************************************)

\* The largest number of facts in which an environment differs from Healthy.
MaxFaults == 2

\* for file in "${files[@]}"
files == <<"Dockerfile", "nginx.conf", "package.json", "vite.config.js", ".dockerignore">>

\* for header in "${security_headers[@]}"
security_headers == <<"Strict-Transport-Security", "X-Frame-Options",
                      "X-Content-Type-Options", "X-XSS-Protection">>

\* for port in 80 443
ports == <<"80", "443">>

\* The patterns the script greps for; as a fact: the searched file holds a match.
Patterns == {"proxy_pass", "try_files.*index.html", "Strict-Transport-Security",
             "X-Frame-Options", "X-Content-Type-Options", "X-XSS-Protection",
             "ssl_protocols TLSv1.2 TLSv1.3", "USER nginx", "gzip on", "http2",
             "expires", "minify"}

\* Everything the script asks of its environment.
Facts == {"clear", "docker", "daemon",
          "Dockerfile", "nginx.conf", "package.json", "vite.config.js", ".dockerignore",
          "ca_dir", "ca_fullchain", "ca_privkey",
          "local_dir", "local_fullchain", "local_privkey",
          "openssl", "expiry", "conf_valid",
          "node_modules", "npm_build", "dist", "dist_index",
          "docker_build", "docker_images", "docker_rmi",
          "dig", "dns_answer",
          "lsof80", "ss80", "lsof443", "ss443"} \cup Patterns

\* A host that is ready: every tool and file is there, both certificate
\* locations are complete, nginx.conf has no proxy_pass, both ports are free.
Healthy == Facts \ {"proxy_pass", "lsof80", "ss80", "lsof443", "ss443"}

RECURSIVE SubsetsUpTo(_, _)
SubsetsUpTo(S, k) ==
    IF k = 0 THEN {{}}
    ELSE LET P == SubsetsUpTo(S, k - 1)
         IN  P \cup {p \cup {x} : p \in P, x \in S}

Environments == {(Healthy \ D) \cup (D \ Healthy) : D \in SubsetsUpTo(Facts, MaxFaults)}

Has(e, f) == f \in e

\* [ -f "$file" ] in the working directory
IsFile(e, f) == Has(e, f)

\* [ -f "$CERT_PATH/fullchain.pem" ] && [ -f "$CERT_PATH/privkey.pem" ]
CaComplete(e) == Has(e, "ca_dir") /\ Has(e, "ca_fullchain") /\ Has(e, "ca_privkey")

\* [ -f "$LOCAL_CERT_PATH/fullchain.pem" ] && [ -f "$LOCAL_CERT_PATH/privkey.pem" ]
LocalComplete(e) == Has(e, "local_dir") /\ Has(e, "local_fullchain") /\ Has(e, "local_privkey")

\* grep -q pattern file: status 0 iff the file can be read and holds a match
Grep(e, pattern, file) == Has(e, file) /\ Has(e, pattern)

\* docker info
DockerInfo(e) == Has(e, "docker") /\ Has(e, "daemon")

\* docker run --rm -v $(pwd)/nginx.conf:... nginx:1.27-alpine nginx -t
NginxT(e) == DockerInfo(e) /\ Has(e, "nginx.conf") /\ Has(e, "conf_valid")

\* npm run build
NpmBuild(e) == Has(e, "package.json") /\ Has(e, "npm_build")

\* docker build -t portfolio-test:check .
DockerBuild(e) == DockerInfo(e) /\ Has(e, "Dockerfile") /\ Has(e, "docker_build")

\* lsof -i :$port || ss -tuln | grep -q ":$port "
PortInUse(e, port) == Has(e, "lsof" \o port) \/ Has(e, "ss" \o port)

(***************************************************************************)
(* Commands                                                                *)
(***************************************************************************)

Tags == {"Pass", "Fail", "Warn"}

Command(kind, sec, line, chk, status, text, fx) ==
    [kind |-> kind, sec |-> sec, line |-> line, chk |-> chk,
     status |-> status, text |-> text, fx |-> fx]

\* the condition of an `if`: its status never ends the shell
Test(sec, line, chk) == Command("test", sec, line, chk, 0, "", "none")
TestFx(sec, line, chk, fx) == Command("test", sec, line, chk, 0, "", fx)
\* check_pass "...", check_fail "...", check_warn "..."
Call(tag, sec, line, chk) == Command(tag, sec, line, chk, 0, "", "none")
\* any other simple command, with its exit status and what it prints
Cmd(sec, line, chk, status, text, fx) == Command("cmd", sec, line, chk, status, text, fx)
Echo(sec, line, chk, text) == Command("cmd", sec, line, chk, 0, text, "none")
StatusOf(ok) == IF ok THEN 0 ELSE 1

\* print_header "$1"
print_header(sec, line) == Echo(sec, line, "none", "header")

\* if <cond>; then check_pass; else <other>; fi
PassOr(other, ok, sec, line, chk) ==
    <<Test(sec, line, chk),
      IF ok THEN Call("Pass", sec, line + 1, chk) ELSE Call(other, sec, line + 3, chk)>>

(***************************************************************************)
(* The script: what each section executes in environment e                 *)
(***************************************************************************)

\* lines 39-48: clear, then the title box
Header(e) ==
    <<Cmd(0, 40, "none", StatusOf(Has(e, "clear")), "", "none"),
      Echo(0, 41, "none", "title")>>

\* 1. Docker Environment
Section1(e) ==
    <<print_header(1, 51)>>
    \o PassOr("Fail", Has(e, "docker"), 1, 52, "docker_installed")
    \o PassOr("Fail", DockerInfo(e), 1, 58, "docker_daemon")

\* 2. Required Files
RECURSIVE FileChecks(_, _)
FileChecks(e, i) ==
    IF i > Len(files) THEN <<>>
    ELSE PassOr("Fail", IsFile(e, files[i]), 2, 75, files[i]) \o FileChecks(e, i + 1)

Section2(e) == <<print_header(2, 65)>> \o FileChecks(e, 1)

\* the expiry lines nested in the CA branch (lines 91-97)
CertExpiry(e) ==
    <<Test(3, 92, "cert_expiry")>>
    \o (IF Has(e, "openssl")
        THEN <<Cmd(3, 93, "cert_expiry", 0, "", "none"), Test(3, 94, "cert_expiry")>>
             \o (IF Has(e, "expiry") THEN <<Call("Pass", 3, 95, "cert_expiry")>> ELSE <<>>)
        ELSE <<>>)

\* 3. SSL Certificates: if [ -d CA ] ... elif [ -d certs ] ... else ...
Section3(e) ==
    <<print_header(3, 83), Test(3, 87, "ssl_certs")>>
    \o (IF Has(e, "ca_dir")
        THEN <<Test(3, 88, "ssl_certs")>>
             \o (IF CaComplete(e)
                 THEN <<Call("Pass", 3, 89, "ssl_certs")>> \o CertExpiry(e)
                 ELSE <<Call("Fail", 3, 99, "ssl_certs")>>)
        ELSE <<Test(3, 101, "ssl_certs")>>
             \o (IF Has(e, "local_dir")
                 THEN <<Test(3, 102, "ssl_certs"),
                        IF LocalComplete(e) THEN Call("Pass", 3, 103, "ssl_certs")
                                            ELSE Call("Fail", 3, 105, "ssl_certs")>>
                 ELSE <<Call("Fail", 3, 108, "ssl_certs"),
                        Echo(3, 109, "ssl_certs", "hint")>>))

\* 4. nginx Configuration: validity, then the two heuristics
Section4(e) ==
    <<print_header(4, 113), Test(4, 114, "nginx_valid")>>
    \o (IF NginxT(e)
        THEN <<Call("Pass", 4, 115, "nginx_valid")>>
        ELSE <<Call("Fail", 4, 117, "nginx_valid"),
               Cmd(4, 118, "nginx_valid", StatusOf(NginxT(e)), "raw", "none")>>)
    \o <<Test(4, 122, "proxy_pass")>>
    \o (IF Grep(e, "proxy_pass", "nginx.conf")
        THEN <<Call("Warn", 4, 123, "proxy_pass")>> ELSE <<>>)
    \o PassOr("Warn", Grep(e, "try_files.*index.html", "nginx.conf"), 4, 126, "spa_fallback")

\* 5. Build Test
Section5(e) ==
    <<print_header(5, 133)>>
    \o PassOr("Warn", Has(e, "node_modules"), 5, 134, "node_modules")
    \o <<Test(5, 140, "npm_build")>>
    \o (IF NpmBuild(e)
        THEN <<Call("Pass", 5, 141, "npm_build"), Test(5, 144, "dist_size")>>
             \o (IF Has(e, "dist")
                 THEN <<Cmd(5, 145, "dist_size", 0, "", "none"),
                        Call("Pass", 5, 146, "dist_size")>>
                      \o PassOr("Fail", Has(e, "dist_index"), 5, 149, "dist_index")
                 ELSE <<>>)
        ELSE <<Call("Fail", 5, 156, "npm_build")>>)

\* 6. Docker Build Test
Section6(e) ==
    <<print_header(6, 160)>>
    \o (IF DockerBuild(e)
        THEN <<TestFx(6, 161, "docker_build", "mkimage"),
               Call("Pass", 6, 162, "docker_build"),
               Cmd(6, 165, "image_size", StatusOf(Has(e, "docker_images")), "", "none"),
               Call("Pass", 6, 166, "image_size"),
               Cmd(6, 169, "none", 0, "",
                   IF Has(e, "docker_rmi") THEN "rmimage" ELSE "none")>>
        ELSE <<Test(6, 161, "docker_build"),
               Call("Fail", 6, 171, "docker_build")>>)

\* 7. Security Configuration
RECURSIVE HeaderChecks(_, _)
HeaderChecks(e, i) ==
    IF i > Len(security_headers) THEN <<>>
    ELSE PassOr("Warn", Grep(e, security_headers[i], "nginx.conf"), 7, 186, security_headers[i])
         \o HeaderChecks(e, i + 1)

Section7(e) ==
    <<print_header(7, 175)>>
    \o HeaderChecks(e, 1)
    \o PassOr("Warn", Grep(e, "ssl_protocols TLSv1.2 TLSv1.3", "nginx.conf"), 7, 194, "ssl_protocols")
    \o PassOr("Warn", Grep(e, "USER nginx", "Dockerfile"), 7, 201, "non_root")

\* 8. Performance Configuration
Section8(e) ==
    <<print_header(8, 208)>>
    \o PassOr("Warn", Grep(e, "gzip on", "nginx.conf"), 8, 211, "gzip")
    \o PassOr("Warn", Grep(e, "http2", "nginx.conf"), 8, 218, "http2")
    \o PassOr("Warn", Grep(e, "expires", "nginx.conf"), 8, 225, "expires")
    \o PassOr("Warn", Grep(e, "minify", "vite.config.js"), 8, 232, "minify")

\* 9. DNS Configuration
Section9(e) ==
    <<print_header(9, 239), Test(9, 240, "dns")>>
    \o (IF Has(e, "dig")
        THEN <<Cmd(9, 241, "dns", 0, "", "none"), Test(9, 242, "dns"),
               IF Has(e, "dns_answer") THEN Call("Pass", 9, 243, "dns")
                                       ELSE Call("Warn", 9, 245, "dns")>>
        ELSE <<Call("Warn", 9, 248, "dns")>>)

\* 10. Port Availability
RECURSIVE PortChecks(_, _)
PortChecks(e, i) ==
    IF i > Len(ports) THEN <<>>
    ELSE <<Test(10, 254, "port" \o ports[i]),
           IF PortInUse(e, ports[i]) THEN Call("Warn", 10, 255, "port" \o ports[i])
                                     ELSE Call("Pass", 10, 257, "port" \o ports[i])>>
         \o PortChecks(e, i + 1)

Section10(e) == <<print_header(10, 252)>> \o PortChecks(e, 1)

\* Summary: the totals, then the banner and exit chosen when it runs
Summary ==
    <<print_header(11, 262),
      Command("totals", 11, 263, "none", 0, "totals", "none"),
      Command("verdict", 11, 270, "none", 0, "", "none")>>

\* variant of Script: the file checks are placed before the Docker checks
Script_swapped(e) ==
    Header(e) \o Section2(e) \o Section1(e) \o Section3(e) \o Section4(e)
    \o Section5(e) \o Section6(e) \o Section7(e) \o Section8(e) \o Section9(e)
    \o Section10(e) \o Summary
Script(e) ==
    Header(e) \o Section1(e) \o Section2(e) \o Section3(e) \o Section4(e)
    \o Section5(e) \o Section6(e) \o Section7(e) \o Section8(e) \o Section9(e)
    \o Section10(e) \o Summary

(***************************************************************************)
(* Execution                                                               *)
(***************************************************************************)

Running == exitCode = <<>>
Done == exitCode # <<>>
Cur == Script(env)[pc]

Line(kind, c, n) == [kind |-> kind, sec |-> c.sec, chk |-> c.chk, n |-> n]

\* ((X++)): the value of the expression is X before the increment, and the
\* status of an arithmetic command is 1 when that value is 0, else 0
ArithStatus(old) == IF old = 0 THEN 1 ELSE 0

\* variant of errexit: the shell ends with status 0 whatever the command returned
errexit_zero(status) == 0
\* set -e: the status the shell ends with when a simple command fails
errexit(status) == status

\* after a simple command outside any condition returned `status`
Return(status) ==
    IF status # 0
    THEN /\ exitCode' = <<errexit(status)>>
         /\ pc' = pc
    ELSE /\ exitCode' = exitCode
         /\ pc' = pc + 1

\* variant of check_pass: the line is printed, the counter is not incremented
check_pass_noinc(c) ==
    /\ out' = Append(out, Line("Pass", c, 0))
    /\ UNCHANGED <<PASSED, FAILED, WARNINGS>>
    /\ Return(ArithStatus(PASSED))
\* variant of check_pass: a Pass is also counted as a warning
check_pass_both(c) ==
    /\ out' = Append(out, Line("Pass", c, 0))
    /\ PASSED' = PASSED + 1
    /\ WARNINGS' = WARNINGS + 1
    /\ UNCHANGED FAILED
    /\ Return(ArithStatus(PASSED))
\* echo "✓ $1"; ((PASSED++))
check_pass(c) ==
    /\ out' = Append(out, Line("Pass", c, 0))
    /\ PASSED' = PASSED + 1
    /\ UNCHANGED <<FAILED, WARNINGS>>
    /\ Return(ArithStatus(PASSED))

\* variant of check_fail: the result line is printed twice
check_fail_twice(c) ==
    /\ out' = out \o <<Line("Fail", c, 0), Line("Fail", c, 0)>>
    /\ FAILED' = FAILED + 1
    /\ UNCHANGED <<PASSED, WARNINGS>>
    /\ Return(ArithStatus(FAILED))
\* echo "✗ $1"; ((FAILED++))
check_fail(c) ==
    /\ out' = Append(out, Line("Fail", c, 0))
    /\ FAILED' = FAILED + 1
    /\ UNCHANGED <<PASSED, WARNINGS>>
    /\ Return(ArithStatus(FAILED))

\* echo "⚠ $1"; ((WARNINGS++))
check_warn(c) ==
    /\ out' = Append(out, Line("Warn", c, 0))
    /\ WARNINGS' = WARNINGS + 1
    /\ UNCHANGED <<PASSED, FAILED>>
    /\ Return(ArithStatus(WARNINGS))

Effect(fx) ==
    image' = CASE fx = "mkimage" -> TRUE
               [] fx = "rmimage" -> FALSE
               [] OTHER -> image

Init ==
    /\ env \in Environments
    /\ pc = 1
    /\ PASSED = 0
    /\ FAILED = 0
    /\ WARNINGS = 0
    /\ out = <<>>
    /\ exitCode = <<>>
    /\ attempted = {}
    /\ image = FALSE
    /\ run = 1
    /\ first = <<>>
    /\ asset = <<>>
    /\ fileName = <<>>

\* the condition of an if: evaluated, never fatal
EvalCondition ==
    /\ Running
    /\ Cur.kind = "test"
    /\ attempted' = attempted \cup {Cur.chk}
    /\ Effect(Cur.fx)
    /\ pc' = pc + 1
    /\ UNCHANGED <<env, PASSED, FAILED, WARNINGS, out, exitCode, run, first, asset, fileName>>

\* a statement that calls check_pass, check_fail or check_warn
CallCheck ==
    /\ Running
    /\ Cur.kind \in Tags
    /\ CASE Cur.kind = "Pass" -> check_pass(Cur)
         [] Cur.kind = "Fail" -> check_fail(Cur)
         [] Cur.kind = "Warn" -> check_warn(Cur)
    /\ UNCHANGED <<env, attempted, image, run, first, asset, fileName>>

\* any other simple command: clear, echo, an assignment from a command
\* substitution, the totals (lines 263-268), the banner and exit (270-289)
RunSimpleCommand ==
    /\ Running
    /\ Cur.kind \in {"cmd", "totals", "verdict"}
    /\ CASE Cur.kind = "cmd" ->
              /\ out' = IF Cur.text = "" THEN out ELSE Append(out, Line(Cur.text, Cur, 0))
              /\ Effect(Cur.fx)
              /\ Return(Cur.status)
         [] Cur.kind = "totals" ->
              /\ out' = Append(out, Line("totals", Cur, PASSED + FAILED + WARNINGS))
              /\ pc' = pc + 1
              /\ UNCHANGED <<image, exitCode>>
         [] Cur.kind = "verdict" ->
              /\ out' = Append(out, Line(IF FAILED = 0 THEN "ready" ELSE "notready", Cur, 0))
              /\ exitCode' = <<IF FAILED = 0 THEN 0 ELSE 1>>
              /\ UNCHANGED <<image, pc>>
    /\ UNCHANGED <<env, PASSED, FAILED, WARNINGS, attempted, run, first, asset, fileName>>

Next == EvalCondition \/ CallCheck \/ RunSimpleCommand

Spec == Init /\ [][Next]_vars

\* variant of Rerun: the counters keep the values the first run left
Rerun_keep ==
    /\ Done
    /\ run = 1
    /\ run' = 2
    /\ first' = <<PASSED, FAILED, WARNINGS>>
    /\ pc' = 1
    /\ out' = <<>>
    /\ exitCode' = <<>>
    /\ attempted' = {}
    /\ UNCHANGED <<env, image, PASSED, FAILED, WARNINGS, asset, fileName>>
\* The script is started a second time on the same host.  The shell starts
\* afresh (lines 6-16: set -e, PASSED=0, FAILED=0, WARNINGS=0); the host
\* keeps what the first run left (the facts of env, which describe what the
\* probes answer after the script's own build, and the test image).
Rerun ==
    /\ Done
    /\ run = 1
    /\ run' = 2
    /\ first' = <<PASSED, FAILED, WARNINGS>>
    /\ pc' = 1
    /\ PASSED' = 0
    /\ FAILED' = 0
    /\ WARNINGS' = 0
    /\ out' = <<>>
    /\ exitCode' = <<>>
    /\ attempted' = {}
    /\ UNCHANGED <<env, image, asset, fileName>>

NextTwice == EvalCondition \/ CallCheck \/ RunSimpleCommand \/ Rerun

\* two runs in succession
SpecTwice == Init /\ [][NextTwice]_vars

(***************************************************************************)
(* Vite's assetFileNames (src/pf-react/vite.config.js).  A name is a        *)
(* sequence of characters, an output pattern a sequence of path segments.  *)
(***************************************************************************)

Letters == <<"a", "b", "c", "d", "e", "f", "g", "h", "i", "j", "k", "l", "m", "n", "o", "p", "q", "r", "s", "t", "u", "v", "w", "x", "y", "z">>
Capitals == <<"A", "B", "C", "D", "E", "F", "G", "H", "I", "J", "K", "L", "M", "N", "O", "P", "Q", "R", "S", "T", "U", "V", "W", "X", "Y", "Z">>

\* case folding of one character, as the i flag of a regular expression does
ToLower(c) == IF \E i \in 1..Len(Capitals) : Capitals[i] = c
              THEN Letters[CHOOSE i \in 1..Len(Capitals) : Capitals[i] = c]
              ELSE c
ToUpper(c) == IF \E i \in 1..Len(Letters) : Letters[i] = c
              THEN Capitals[CHOOSE i \in 1..Len(Letters) : Letters[i] = c]
              ELSE c
Lower(name) == [i \in 1..Len(name) |-> ToLower(name[i])]
Upper(name) == [i \in 1..Len(name) |-> ToUpper(name[i])]
Capitalized(name) == [i \in 1..Len(name) |-> IF i = 1 THEN ToUpper(name[i]) ELSE name[i]]

\* a literal piece of a regular expression, and an optional character (c?)
Lit(word) == [i \in 1..Len(word) |-> [c |-> word[i], opt |-> FALSE]]
Opt(c) == <<[c |-> c, opt |-> TRUE]>>

\* (png|jpe?g|gif|svg|webp|ico)
ImageAlternatives ==
    {Lit(<<"p", "n", "g">>), Lit(<<"j", "p">>) \o Opt("e") \o Lit(<<"g">>), Lit(<<"g", "i", "f">>),
     Lit(<<"s", "v", "g">>), Lit(<<"w", "e", "b", "p">>), Lit(<<"i", "c", "o">>)}

\* (woff2?|eot|ttf|otf)
FontAlternatives ==
    {Lit(<<"w", "o", "f", "f">>) \o Opt("2"), Lit(<<"e", "o", "t">>), Lit(<<"t", "t", "f">>), Lit(<<"o", "t", "f">>)}

\* the pattern matches the whole word
RECURSIVE Matches(_, _)
Matches(pat, word) ==
    IF pat = <<>> THEN word = <<>>
    ELSE \/ /\ word # <<>>
            /\ word[1] = Head(pat).c
            /\ Matches(Tail(pat), Tail(word))
         \/ /\ Head(pat).opt
            /\ Matches(Tail(pat), word)

\* variant of RegexTest: the i flag is missing
RegexTest_cs(alts, name) ==
    \E k \in 1..Len(name) :
        /\ name[k] = "."
        /\ \E a \in alts : Matches(a, SubSeq(name, k + 1, Len(name)))
\* /\.(alts)$/i.test(name)
RegexTest(alts, name) ==
    \E k \in 1..Len(name) :
        /\ name[k] = "."
        /\ \E a \in alts : Matches(a, Lower(SubSeq(name, k + 1, Len(name))))

\* assetFileNames: (assetInfo) => ...
assetFileNames(name) ==
    IF RegexTest(ImageAlternatives, name)
    THEN <<"assets", "images", "[name]-[hash][extname]">>
    ELSE IF RegexTest(FontAlternatives, name)
         THEN <<"assets", "fonts", "[name]-[hash][extname]">>
         ELSE <<"assets", "[name]-[hash][extname]">>

\* The asset names the bundler is given: a stem, a dot or none, an extension
\* word in one of three casings, and nothing or more text after it.
Stems == {<<>>, <<"a">>, <<"a", ".", "b">>, <<"x", ".", "p", "n", "g", "-">>}
ExtWords == {<<"p", "n", "g">>,
             <<"j", "p", "g">>,
             <<"j", "p", "e", "g">>,
             <<"g", "i", "f">>,
             <<"s", "v", "g">>,
             <<"w", "e", "b", "p">>,
             <<"i", "c", "o">>,
             <<"w", "o", "f", "f">>,
             <<"w", "o", "f", "f", "2">>,
             <<"e", "o", "t">>,
             <<"t", "t", "f">>,
             <<"o", "t", "f">>,
             <<"c", "s", "s">>,
             <<"j", "s">>,
             <<"m", "a", "p">>,
             <<"j", "p", "e">>,
             <<"j", "p", "e", "g", "g">>,
             <<"w", "o", "f">>,
             <<"w", "o", "f", "f", "3">>,
             <<"p", "n">>,
             <<"t", "i", "f", "f">>}
Casings(word) == {word, Upper(word), Capitalized(word)}
Separators == {<<".">>, <<>>}
Endings == {<<>>, <<"~">>, <<".", "g", "z">>}
AssetNames ==
    {st \o sp \o c \o en :
        st \in Stems, sp \in Separators,
        c \in UNION {Casings(x) : x \in ExtWords}, en \in Endings}

InitAssets ==
    /\ asset \in AssetNames
    /\ fileName = <<>>
    /\ env = Healthy
    /\ pc = 1
    /\ PASSED = 0
    /\ FAILED = 0
    /\ WARNINGS = 0
    /\ out = <<>>
    /\ exitCode = <<>>
    /\ attempted = {}
    /\ image = FALSE
    /\ run = 1
    /\ first = <<>>

\* the bundler asks for the output pattern of the asset
EmitAsset ==
    /\ fileName = <<>>
    /\ fileName' = assetFileNames(asset)
    /\ UNCHANGED <<env, pc, PASSED, FAILED, WARNINGS, out, exitCode, attempted,
                   image, run, first, asset>>

NextAssets == EmitAsset

SpecAssets == InitAssets /\ [][NextAssets]_vars

(***************************************************************************)
(* Properties                                                              *)
(***************************************************************************)

IsResult(l) == l.kind \in Tags
\* the Pass/Fail/Warn lines printed so far
Results == {i \in 1..Len(out) : IsResult(out[i])}
Banners == {i \in 1..Len(out) : out[i].kind \in {"ready", "notready"}}
\* the result lines and the other lines that check c has printed
ResultsOf(c) == {i \in Results : out[i].chk = c}
OtherLinesOf(c) == {i \in 1..Len(out) : out[i].chk = c /\ ~IsResult(out[i])}
HasLine(kind) == \E i \in 1..Len(out) : out[i].kind = kind
ResultCount(kind, chk) ==
    Cardinality({i \in 1..Len(out) : out[i].kind = kind /\ out[i].chk = chk})
SectionCount(kind, sec) ==
    Cardinality({i \in 1..Len(out) : out[i].kind = kind /\ out[i].sec = sec})
SectionsStarted == {out[i].sec : i \in {j \in 1..Len(out) : out[j].kind = "header"}}
\* the environment is one in which no check the script performs yields Fail
NoCheckFails(e) == \A i \in 1..Len(Script(e)) : Script(e)[i].kind # "Fail"
\* the terminal can be cleared (line 40), so the run gets to its checks
Started == Done /\ Has(env, "clear")

\* C1: once a Fail has been recorded the READY banner is never printed, and
\* the run does not end with exit code 0.
C1_FailNeverExitsZero ==
    FAILED > 0 => (~HasLine("ready") /\ exitCode # <<0>>)

C1_Witness == Done /\ FAILED > 0 /\ exitCode = <<1>>

\* C2: in an environment where no check yields Fail, the run ends with exit
\* code 0 and the READY banner, whatever the number of Warn results.
C2_NoFailExitsZero ==
    (Started /\ NoCheckFails(env)) => (exitCode = <<0>> /\ HasLine("ready"))

\* C3: every run reaches the Summary: all ten sections were started, the
\* totals were printed and exactly one closing banner was printed.
C3_ReachesSummary ==
    Started => /\ SectionsStarted = 1..11
               /\ HasLine("totals")
               /\ Cardinality(Banners) = 1

C5_InvalidNginxOneFail ==
    (Started /\ ~NginxT(env)) =>
        /\ ResultCount("Fail", "nginx_valid") = 1
        /\ ResultCount("Pass", "nginx_valid") = 0
        /\ "spa_fallback" \in attempted

\* C7: when either certificate location holds both files, section 3 records
\* a Pass for the certificates and no Fail.
C7_EitherLocationPasses ==
    (Started /\ (CaComplete(env) \/ LocalComplete(env))) =>
        /\ ResultCount("Pass", "ssl_certs") = 1
        /\ SectionCount("Fail", 3) = 0

\* C8: with neither certificate directory, section 3 records exactly one
\* Fail and prints the certbot hint; with the result taken from certs/,
\* exactly one Pass and no expiry extraction.
C8_CertificateEdgeCases ==
    Started =>
        /\ (~Has(env, "ca_dir") /\ ~Has(env, "local_dir")) =>
              /\ SectionCount("Fail", 3) = 1
              /\ SectionCount("Pass", 3) = 0
              /\ HasLine("hint")
        /\ (~Has(env, "ca_dir") /\ LocalComplete(env)) =>
              /\ SectionCount("Pass", 3) = 1
              /\ SectionCount("Fail", 3) = 0
              /\ "cert_expiry" \notin attempted

\* C9: section 2 yields one result per required file, Pass if the file is
\* there and Fail if not, and never a Warn.
C9_OneResultPerFile ==
    Started =>
        /\ \A i \in 1..Len(files) :
              /\ ResultCount("Pass", files[i]) = (IF IsFile(env, files[i]) THEN 1 ELSE 0)
              /\ ResultCount("Fail", files[i]) = (IF IsFile(env, files[i]) THEN 0 ELSE 1)
        /\ SectionCount("Warn", 2) = 0

FirstResultEndsRun ==
    /\ Cardinality(Results) <= 1
    /\ Cardinality(Results) = 1 => exitCode = <<1>>
    /\ Done => exitCode = <<1>>

\* docker build (line 161) is never run, so the test image is never created.
ImageNeverBuilt == ~image /\ "docker_build" \notin attempted

C12_MissingToolWarns ==
    Started =>
        /\ ~Has(env, "dig") => ResultCount("Warn", "dns") = 1
        /\ (CaComplete(env) /\ ~Has(env, "openssl")) =>
              ResultCount("Warn", "cert_expiry") = 1

\* C13: section 9 yields exactly one result: Pass when dig is installed and
\* answers, Warn otherwise, and never a Fail.
C13_DnsOneResult ==
    Started =>
        /\ ResultCount("Pass", "dns") =
              (IF Has(env, "dig") /\ Has(env, "dns_answer") THEN 1 ELSE 0)
        /\ ResultCount("Warn", "dns") =
              (IF Has(env, "dig") /\ Has(env, "dns_answer") THEN 0 ELSE 1)
        /\ SectionCount("Fail", 9) = 0

\* C14: the try_files heuristic yields Pass on a match and Warn otherwise;
\* the proxy_pass heuristic yields one Warn on a match and nothing otherwise.
C14_ProxyHeuristics ==
    Started =>
        /\ ResultCount("Pass", "spa_fallback") =
              (IF Grep(env, "try_files.*index.html", "nginx.conf") THEN 1 ELSE 0)
        /\ ResultCount("Warn", "spa_fallback") =
              (IF Grep(env, "try_files.*index.html", "nginx.conf") THEN 0 ELSE 1)
        /\ ResultCount("Warn", "proxy_pass") =
              (IF Grep(env, "proxy_pass", "nginx.conf") THEN 1 ELSE 0)
        /\ ResultCount("Fail", "spa_fallback") + ResultCount("Fail", "proxy_pass") = 0

\* C15: section 5 yields Pass or Warn for node_modules, then Pass or Fail for
\* the build, and the dist results only after a successful build with dist/.
C15_LocalBuild ==
    Started =>
        /\ ResultCount("Pass", "node_modules") = (IF Has(env, "node_modules") THEN 1 ELSE 0)
        /\ ResultCount("Warn", "node_modules") = (IF Has(env, "node_modules") THEN 0 ELSE 1)
        /\ ResultCount("Pass", "npm_build") = (IF NpmBuild(env) THEN 1 ELSE 0)
        /\ ResultCount("Fail", "npm_build") = (IF NpmBuild(env) THEN 0 ELSE 1)
        /\ ResultCount("Pass", "dist_size") =
              (IF NpmBuild(env) /\ Has(env, "dist") THEN 1 ELSE 0)
        /\ ResultCount("Pass", "dist_index") + ResultCount("Fail", "dist_index") =
              (IF NpmBuild(env) /\ Has(env, "dist") THEN 1 ELSE 0)
        /\ SectionCount("Fail", 5) <= 1

\* the containment checks of sections 7 and 8: check, pattern, file
Containment ==
    {<<"Strict-Transport-Security", "Strict-Transport-Security", "nginx.conf">>,
     <<"X-Frame-Options", "X-Frame-Options", "nginx.conf">>,
     <<"X-Content-Type-Options", "X-Content-Type-Options", "nginx.conf">>,
     <<"X-XSS-Protection", "X-XSS-Protection", "nginx.conf">>,
     <<"ssl_protocols", "ssl_protocols TLSv1.2 TLSv1.3", "nginx.conf">>,
     <<"non_root", "USER nginx", "Dockerfile">>,
     <<"gzip", "gzip on", "nginx.conf">>,
     <<"http2", "http2", "nginx.conf">>,
     <<"expires", "expires", "nginx.conf">>,
     <<"minify", "minify", "vite.config.js">>}

\* C16: each containment check of sections 7 and 8 yields exactly one
\* result, Pass on a match and Warn otherwise, and never a Fail.
C16_ContainmentChecks ==
    Started =>
        \A t \in Containment :
            /\ ResultCount("Pass", t[1]) = (IF Grep(env, t[2], t[3]) THEN 1 ELSE 0)
            /\ ResultCount("Warn", t[1]) = (IF Grep(env, t[2], t[3]) THEN 0 ELSE 1)
            /\ ResultCount("Fail", t[1]) = 0

C18_ContainerBuild ==
    Started =>
        /\ SectionCount("Pass", 6) = (IF DockerBuild(env) THEN 2 ELSE 0)
        /\ SectionCount("Fail", 6) = (IF DockerBuild(env) THEN 0 ELSE 1)
        /\ SectionCount("Warn", 6) = 0

\* C20: a call of check_pass, check_fail or check_warn never ends the run:
\* the command at which the shell ended is not such a call.
C20_RecordingNeverEndsRun ==
    Done => Cur.kind \notin Tags

\* No run gets to the Summary: neither the totals nor a banner is printed.
SummaryNeverReached == ~HasLine("totals") /\ Banners = {} /\ 11 \notin SectionsStarted

\* what a step of a run does to the three counters when the command at pc
\* is a call of kind k: that counter grows by 1, the other two stay
CountersStep(k) ==
    /\ PASSED' = PASSED + (IF k = "Pass" THEN 1 ELSE 0)
    /\ FAILED' = FAILED + (IF k = "Fail" THEN 1 ELSE 0)
    /\ WARNINGS' = WARNINGS + (IF k = "Warn" THEN 1 ELSE 0)

\* C21: the counters start at 0 and change only by a call of check_pass,
\* check_fail or check_warn, which adds exactly 1 to its own counter and
\* leaves the other two; so they never decrease and are never reset.
C21_CountersOnlyByChecks ==
    /\ PASSED = 0 /\ FAILED = 0 /\ WARNINGS = 0
    /\ [][CountersStep(IF Running THEN Cur.kind ELSE "none")]_vars

C21_Witness == PASSED + FAILED + WARNINGS = 1 /\ Done

\* the endings the image rule and the font rule are said to cover
ImageSuffixes ==
    {<<".", "p", "n", "g">>,
     <<".", "j", "p", "g">>,
     <<".", "j", "p", "e", "g">>,
     <<".", "g", "i", "f">>,
     <<".", "s", "v", "g">>,
     <<".", "w", "e", "b", "p">>,
     <<".", "i", "c", "o">>}
FontSuffixes ==
    {<<".", "w", "o", "f", "f">>,
     <<".", "w", "o", "f", "f", "2">>,
     <<".", "e", "o", "t">>,
     <<".", "t", "t", "f">>,
     <<".", "o", "t", "f">>}
EndsWith(name, suffix) ==
    /\ Len(name) >= Len(suffix)
    /\ SubSeq(name, Len(name) - Len(suffix) + 1, Len(name)) = suffix
EndsWithAny(name, suffixes) == \E x \in suffixes : EndsWith(Lower(name), x)

====
